---- MODULE Spec2Model ----
(***************************************************************************)
(* tx-padding: Padding for TxPadding<N> (src/src/lib.rs).                  *)
(*                                                                         *)
(* A caller owns one byte buffer and calls pad / unpad / pad_block of      *)
(* TxPadding<N> on it.  Every action is one whole call.  The variables     *)
(* that follow buf and pos record the arguments and the outcome of the     *)
(* last call of each kind, so that the laws of the scheme are state        *)
(* predicates over "what the call was given" and "what the call left".     *)
(*                                                                         *)
(* Sequences are 1-based: Rust's buf[i] is buf[i + 1] here, and the Rust   *)
(* range a..b is the index set (a + 1)..b.                                 *)
(***************************************************************************)
EXTENDS Integers, Sequences, FiniteSets, TLC

VARIABLES
    N,                \* the type parameter of TxPadding<N>
    overflow_checks,  \* build profile: TRUE = arithmetic overflow panics, FALSE = wraps
    buf,              \* the caller's buffer
    pos,              \* the caller's message length (the pos argument of pad)
    fresh,            \* TRUE while buf still holds what the caller put in it
    op,               \* the call that old, ret, view, drawn describe: "none", "pad", "pad_block"
    block_size,       \* pad: the block_size argument
    old,              \* pad / pad_block: the buffer as it was when the call started
    rng,              \* pad: how the random source behaved (see RngOutcomes)
    ret,              \* pad / pad_block: "none", "Ok", "PadError", "panic"
    view_len,         \* pad: on Ok the returned slice is &mut buf[..view_len], else 0
    drawn,            \* pad: number of bytes asked of the random source
    data_len,         \* unpad: the data argument is &buf[..data_len]
    data_is_view,     \* unpad: TRUE when data is the slice the last pad returned
    uret,             \* unpad: "none", "Ok", "UnpadError"
    lo,               \* unpad: on Ok the returned slice is &data[lo..hi]
    hi

vars == <<N, overflow_checks, buf, pos, fresh, op, block_size, old, rng, ret,
          view_len, drawn, data_len, data_is_view, uret, lo, hi>>

-----------------------------------------------------------------------------
(* Bounds of the model *)

\* usize / isize width.  The wrap-around arithmetic is the same for every
\* width; 16 bits keeps the wrapped values inside TLC's integers.
UsizeBits == 16
\* longest message placed at the front of the buffer
MaxPos == 5
\* extra bytes a buffer may have beyond the required length
Slack == 2
\* pos values counted down from usize::MAX
HugeSpan == 1
\* longest raw byte string handed to unpad
MaxDataLen == 6

-----------------------------------------------------------------------------
(* Machine integers *)

RECURSIVE Pow2(_)
Pow2(n) == IF n = 0 THEN 1 ELSE 2 * Pow2(n - 1)

UsizeMax == Pow2(UsizeBits) - 1
IsizeMax == Pow2(UsizeBits - 1) - 1
IsizeMin == 0 - Pow2(UsizeBits - 1)

\* `pos as isize`
AsIsize(u) == IF u > IsizeMax THEN u - Pow2(UsizeBits) ELSE u
\* `x as usize` for an isize x
AsUsize(x) == x % Pow2(UsizeBits)
\* `x as u8`
AsU8(x) == x % 256
\* wrapped results
WrapUsize(x) == x % Pow2(UsizeBits)
WrapIsize(x) == ((x - IsizeMin) % Pow2(UsizeBits)) + IsizeMin

RECURSIVE BitAnd(_, _, _)
BitAnd(a, b, n) ==
    IF n = 0 THEN 0
    ELSE (a % 2) * (b % 2) + 2 * BitAnd(a \div 2, b \div 2, n - 1)

\* u8 operators & | !
U8And(a, b) == BitAnd(a, b, 8)
U8Or(a, b) == a + b - U8And(a, b)
U8Not(a) == 255 - a

-----------------------------------------------------------------------------
(* Slices *)

\* &s[a..b] (Rust indices)
Slice(s, a, b) == SubSeq(s, a + 1, b)

\* s with the Rust range a..a+Len(w) overwritten by w
Overwrite(s, a, w) ==
    [i \in 1..Len(s) |-> IF i > a /\ i <= a + Len(w) THEN w[i - a] ELSE s[i]]

Zeros(n) == [i \in 1..n |-> 0]

-----------------------------------------------------------------------------
(* TxPadding::pad, src/src/lib.rs:93-120 *)

\* let be = block_size * ((pos + 1) / block_size + 2);   in usize arithmetic
BeOverflows(p) ==
    \/ p + 1 > UsizeMax
    \/ N * (WrapUsize(p + 1) \div N + 2) > UsizeMax

\* one block of room instead of two
BeOneBlock(p) == WrapUsize(N * (WrapUsize(p + 1) \div N + 1))

Be(p) == WrapUsize(N * (WrapUsize(p + 1) \div N + 2))

\* let pad_len = ((-(pos as isize) - 2).rem_euclid(block_size as isize)) as usize + 2;
PadLenOverflows(p) ==
    \/ 0 - AsIsize(p) > IsizeMax
    \/ WrapIsize(0 - AsIsize(p)) - 2 < IsizeMin

PadLen(p) == AsUsize((WrapIsize(WrapIsize(0 - AsIsize(p)) - 2)) % N) + 2

\* buf.copy_within(..pos, dest) panics when the source or the destination
\* range does not fit in the slice
CopyWithinPanics(b, p, dest) == p > Len(b) \/ dest > Len(b) - p

\* a front-to-back byte loop, which reads bytes it has already overwritten
RECURSIVE ForwardLoop(_, _, _, _)
ForwardLoop(b, p, dest, i) ==
    IF i = p THEN b
    ELSE ForwardLoop([b EXCEPT ![dest + i + 1] = b[i + 1]], p, dest, i + 1)

CopyWithinForward(b, p, dest) == ForwardLoop(b, p, dest, 0)

\* buf.copy_within(..pos, dest): a memmove, correct under overlap
CopyWithin(b, p, dest) == Overwrite(b, dest, Slice(b, 0, p))

\* the bytes the random source produces for a request of n bytes
RngBytes(seed, n) == [i \in 1..n |-> (seed + 7 * (i - 1)) % 256]

\* the slice &mut buf[1..pad_len]
FillLenShort(pad_len) == pad_len - 1

\* the length of the slice &mut buf[1..1 + pad_len] handed to the random source
FillLen(pad_len) == (1 + pad_len) - 1

\* DefaultRng::default().try_fill_bytes(&mut buf[1..1 + pad_len]) returning Ok
TryFillBytes(b, pad_len, seed) == Overwrite(b, 1, RngBytes(seed, FillLen(pad_len)))

\* the header byte written before the random source is asked
TryFillBytesErrHeaderFirst(b, pad_len, seed, filled) ==
    Overwrite(Overwrite(b, 0, <<255>>), 1, RngBytes(seed, filled))

\* try_fill_bytes returning Err: the source stopped after `filled` bytes of
\* the requested range; the rest of the range keeps what it held
TryFillBytesErr(b, pad_len, seed, filled) == Overwrite(b, 1, RngBytes(seed, filled))

\* pad_len stored without the - 2
HeaderPadLen(pad_len) == U8Or(U8Not(AsU8(N - 1)), AsU8(pad_len))

\* the marker bits left out
HeaderNoMarker(pad_len) == AsU8(pad_len - 2)

\* !((block_size - 1) as u8) | (pad_len - 2) as u8
Header(pad_len) == U8Or(U8Not(AsU8(N - 1)), AsU8(pad_len - 2))

\* buf[0] = header
SetHeader(b, pad_len) == Overwrite(b, 0, <<Header(pad_len)>>)

\* block_size zero bytes instead of block_size - 1
ZeroTailBlock(b, be) == Overwrite(b, be - (N - 1), Zeros(N))

\* core::ptr::write_bytes(buf[be - pad_zero..be].as_mut_ptr(), 0, pad_zero)
ZeroTail(b, be) == Overwrite(b, be - (N - 1), Zeros(N - 1))

\* how far a failing random source got: 0 = nothing, 1 = half, 2 = all but
\* the error report
Filled(pad_len, part) ==
    IF part = 0 THEN 0
    ELSE IF part = 1 THEN FillLen(pad_len) \div 2
    ELSE FillLen(pad_len)

Outcome(r, b, v, d) == [ret |-> r, buf |-> b, view_len |-> v, drawn |-> d]

\* the whole of pad(buf, pos, block_size) with the random source behaving as rng
PadOutcome(b, p, bs, r) ==
    IF bs # N THEN Outcome("PadError", b, 0, 0)
    ELSE IF BeOverflows(p) /\ overflow_checks THEN Outcome("panic", b, 0, 0)
    ELSE IF Len(b) < Be(p) THEN Outcome("PadError", b, 0, 0)
    ELSE IF PadLenOverflows(p) /\ overflow_checks THEN Outcome("panic", b, 0, 0)
    ELSE IF CopyWithinPanics(b, p, 1 + PadLen(p)) THEN Outcome("panic", b, 0, 0)
    ELSE LET be == Be(p)
             pad_len == PadLen(p)
             moved == CopyWithin(b, p, 1 + pad_len)
         IN  IF ~r.ok
             THEN Outcome("PadError",
                          TryFillBytesErr(moved, pad_len, r.seed, Filled(pad_len, r.part)),
                          0, FillLen(pad_len))
             ELSE Outcome("Ok",
                          ZeroTail(SetHeader(TryFillBytes(moved, pad_len, r.seed),
                                             pad_len), be),
                          be, FillLen(pad_len))

-----------------------------------------------------------------------------
(* TxPadding::unpad, src/src/lib.rs:75-91 *)

\* the header byte taken whole
UnpadPadLenNoMask(d) == d[1] + 2

\* let pad_len = (data[0] & (pad_zero as u8)) as usize + 2;
UnpadPadLen(d) == U8And(d[1], AsU8(N - 1)) + 2

\* data[l - pad_zero..l].iter().any(|&v| v != 0)
TailNonZero(d) == \E i \in (Len(d) - (N - 1) + 1)..Len(d) : d[i] # 0

UOutcome(r, a, b) == [uret |-> r, lo |-> a, hi |-> b]

\* the whole of unpad(data); on Ok the result is &data[lo..hi]
UnpadOutcome(d) ==
    IF Len(d) = 0 THEN UOutcome("UnpadError", 0, 0)
    ELSE IF Len(d) < UnpadPadLen(d) + N THEN UOutcome("UnpadError", 0, 0)
    ELSE IF TailNonZero(d) THEN UOutcome("UnpadError", 0, 0)
    ELSE UOutcome("Ok", 1 + UnpadPadLen(d), Len(d) - (N - 1))

-----------------------------------------------------------------------------
(* TxPadding::pad_block, src/src/lib.rs:71-73 *)

\* a pad_block that reports success
PadBlockOk(b, p) == Outcome("Ok", b, 0, 0)

PadBlockOutcome(b, p) == Outcome("PadError", b, 0, 0)

-----------------------------------------------------------------------------
(* The caller *)

\* N: PowerOfTwo + Unsigned + IsLessOrEqual<U256> + IsGreater<U1>
BlockSizes == {2, 4, 8, 256}

\* the block_size arguments tried, matching N or not
BlockSizeArgs == {N, 2 * N}

\* a message of k bytes, all different, running through 0xff and 0x00
MsgSeeds == {1, 253}
Msg(seed, k) == [i \in 1..k |-> (seed + (i - 1)) % 256]

\* what the buffer holds behind the message
FillValues == {0, 255}
Fill(f, n) == [i \in 1..n |-> f]

RngSeeds == {0, 255}
RngOutcomes ==
    [ok : {TRUE}, seed : RngSeeds, part : {0}]
        \cup [ok : {FALSE}, seed : {255}, part : 0..2]

\* the buffer length the crate documentation asks for (src/src/lib.rs:6-7)
Required(n, k) == n * ((k + 1) \div n) + 2 * n

BufLens(n, k) == {Required(n, k) - 1, Required(n, k), Required(n, k) + Slack}

\* message lengths: the short ones, and the two that end just before a
\* block boundary
MsgLens(n) == (0..MaxPos) \cup {n - 2, n - 1}

HugePos == (UsizeMax - HugeSpan)..UsizeMax

NoRng == [ok |-> TRUE, seed |-> 0, part |-> 0]

NoCall ==
    /\ fresh = TRUE
    /\ op = "none"
    /\ block_size = 0
    /\ old = <<>>
    /\ rng = NoRng
    /\ ret = "none"
    /\ view_len = 0
    /\ drawn = 0
    /\ data_len = 0
    /\ data_is_view = FALSE
    /\ uret = "none"
    /\ lo = 0
    /\ hi = 0

\* a buffer with a message at its front; pos is the message length, or a
\* length no buffer can hold
Init ==
    /\ N \in BlockSizes
    /\ overflow_checks \in BOOLEAN
    /\ \E seed \in MsgSeeds, k \in MsgLens(N), f \in FillValues :
          /\ \E len \in BufLens(N, k) : buf = Msg(seed, k) \o Fill(f, len - k)
          /\ pos \in {k} \cup HugePos
    /\ NoCall

\* pad is called on a buffer that holds the caller's message; a call that
\* returned without writing can be followed by another one
Pad ==
    /\ fresh
    /\ \E bs \in BlockSizeArgs, r \in RngOutcomes :
          LET out == PadOutcome(buf, pos, bs, r)
          IN  /\ buf' = out.buf
              /\ ret' = out.ret
              /\ view_len' = out.view_len
              /\ drawn' = out.drawn
              /\ block_size' = bs
              /\ rng' = r
              /\ fresh' = (out.buf = buf)
    /\ op' = "pad"
    /\ old' = buf
    /\ data_len' = 0
    /\ data_is_view' = FALSE
    /\ uret' = "none"
    /\ lo' = 0
    /\ hi' = 0
    /\ UNCHANGED <<N, overflow_checks, pos>>

UnpadCall(len, isview) ==
    LET out == UnpadOutcome(Slice(buf, 0, len))
    IN  /\ data_len' = len
        /\ data_is_view' = isview
        /\ uret' = out.uret
        /\ lo' = out.lo
        /\ hi' = out.hi
        /\ UNCHANGED <<N, overflow_checks, buf, pos, fresh, op, block_size, old,
                       rng, ret, view_len, drawn>>

\* unpad applied to the slice the last pad returned
UnpadView ==
    /\ op = "pad"
    /\ ret = "Ok"
    /\ UnpadCall(view_len, TRUE)

\* unpad applied to the whole buffer, whatever it holds
UnpadBuf == UnpadCall(Len(buf), FALSE)

PadBlock ==
    /\ \E p \in {0, pos} :
          LET out == PadBlockOutcome(buf, p)
          IN  /\ buf' = out.buf
              /\ ret' = out.ret
              /\ view_len' = out.view_len
              /\ drawn' = out.drawn
    /\ op' = "pad_block"
    /\ old' = buf
    /\ block_size' = 0
    /\ rng' = NoRng
    /\ data_len' = 0
    /\ data_is_view' = FALSE
    /\ uret' = "none"
    /\ lo' = 0
    /\ hi' = 0
    /\ UNCHANGED <<N, overflow_checks, pos, fresh>>

Next == Pad \/ UnpadView \/ UnpadBuf \/ PadBlock

Spec == Init /\ [][Next]_vars

\* unpad on raw byte strings: every string over DataBytes up to MaxDataLen
DataBytes == {0, 1, 254}
RECURSIVE Strings(_)
Strings(n) ==
    IF n = 0 THEN {<<>>}
    ELSE LET shorter == Strings(n - 1)
         IN  shorter \cup {Append(s, b) : s \in {t \in shorter : Len(t) = n - 1},
                                          b \in DataBytes}

InitUnpad ==
    /\ N \in {2, 4}
    /\ overflow_checks \in BOOLEAN
    /\ buf \in Strings(MaxDataLen)
    /\ pos = 0
    /\ NoCall

NextUnpad == UnpadBuf

SpecUnpad == InitUnpad /\ [][NextUnpad]_vars

-----------------------------------------------------------------------------
(* The laws of the scheme, stated without the operators of the model *)

\* the padded length and the pad length as the documentation defines them
\* (unbounded integers)
L(p) == N * ((p + 1) \div N + 2)
PadLenOf(p) == ((0 - (p + 2)) % N) + 2

\* the message the caller had placed at the front of the buffer
Message == Slice(old, 0, pos)
\* the slice handed to unpad
Data == Slice(buf, 0, data_len)

PadCalled == op = "pad"
PadOk == op = "pad" /\ ret = "Ok"
\* the call passed validation: right block size, enough room
Valid == block_size = N /\ Len(old) >= L(pos)

\* C1: round trip.  With the right block size, a buffer of at least L bytes
\* and a random source that delivers, pad succeeds; unpad applied to the
\* returned view succeeds and returns the message: same length, same bytes.
C1_RoundTrip ==
    /\ (PadCalled /\ Valid /\ rng.ok) => ret = "Ok"
    /\ data_is_view =>
          /\ uret = "Ok"
          /\ hi - lo = pos
          /\ Slice(Data, lo, hi) = Message

C1_Witness ==
    /\ data_is_view
    /\ uret = "Ok"
    /\ pos >= 3
    /\ Len(old) > L(pos)

\* C2: padded layout.  After a successful pad the view has length
\* L = N * ((pos + 1) div N + 2) = 1 + pad_len + pos + (N - 1), a multiple of
\* N; the message sits at [1 + pad_len, 1 + pad_len + pos), and the N - 1
\* bytes behind it, the last of the view, are zero.
C2_Layout ==
    PadOk =>
        LET pad_len == PadLenOf(pos)
        IN  /\ view_len = L(pos)
            /\ view_len % N = 0
            /\ view_len = 1 + pad_len + pos + (N - 1)
            /\ Slice(buf, 1 + pad_len, 1 + pad_len + pos) = Message
            /\ \A i \in (1 + pad_len + pos + 1)..view_len : buf[i] = 0

\* the move overlaps and the tail held non-zero bytes
C2_Witness ==
    /\ PadOk
    /\ pos > 1 + PadLenOf(pos)
    /\ old[L(pos)] = 255

C4_Original ==
    PadOk =>
        /\ view_len % N = 0
        /\ view_len >= pos + N + 1
        /\ view_len - N < pos + N + 1

\* C4 amended: the view's length is the smallest multiple of N that is
\* >= pos + N + 2.
C4_LengthLaw ==
    PadOk =>
        /\ view_len % N = 0
        /\ view_len >= pos + N + 2
        /\ view_len - N < pos + N + 2

\* the message ends one byte before a block boundary
C4_Witness ==
    /\ PadOk
    /\ (pos + 1) % N = 0

\* C5 as stated: a pad call with the wrong block size, or with a buffer
\* shorter than L, returns PadError, draws nothing and leaves the buffer as
\* it was.
C5_Validation ==
    (PadCalled /\ ~Valid) =>
        /\ ret = "PadError"
        /\ buf = old
        /\ drawn = 0

\* C6: unpad fails exactly on empty data, data shorter than pad_len + N, or
\* a non-zero byte among the last N - 1; otherwise it returns
\* data[1 + pad_len .. len - (N - 1)], a range inside data, whatever the
\* high bits of data[0] and whether or not len is a multiple of N.
C6_Unpad ==
    uret # "none" =>
        LET d == Data
            pad_len == (d[1] % N) + 2
            bad == \/ Len(d) = 0
                   \/ Len(d) < pad_len + N
                   \/ \E i \in 1..Len(d) : i > Len(d) - (N - 1) /\ d[i] # 0
        IN  /\ uret = "UnpadError" <=> bad
            /\ uret = "Ok" <=> ~bad
            /\ uret = "Ok" =>
                  /\ lo = 1 + pad_len
                  /\ hi = Len(d) - (N - 1)
                  /\ lo <= hi
                  /\ hi <= Len(d)

\* accepted data whose header carries no marker bits and whose length is
\* not a multiple of N
C6_Witness ==
    /\ uret = "Ok"
    /\ ~data_is_view
    /\ Data[1] \div N = 0
    /\ Len(Data) % N # 0
    /\ hi > lo

\* C7: pad_block returns PadError and leaves the block as it was.
C7_PadBlock ==
    op = "pad_block" =>
        /\ ret = "PadError"
        /\ buf = old

C7_Witness ==
    /\ op = "pad_block"
    /\ Len(buf) > 0
    /\ pos > 0

\* C8 as stated: a successful pad draws exactly pad_len - 1 bytes.
C8_Original == PadOk => drawn = PadLenOf(pos) - 1

\* C8 amended: a successful pad draws exactly pad_len bytes, and the padded
\* message has a random prefix of length pad_len between the header byte and
\* the message.
C8_Drawn ==
    PadOk =>
        LET pad_len == PadLenOf(pos)
        IN  /\ drawn = pad_len
            /\ Slice(buf, 1, 1 + pad_len) = RngBytes(rng.seed, pad_len)
            /\ Slice(buf, 1 + pad_len, 1 + pad_len + pos) = Message

C8_Witness ==
    /\ PadOk
    /\ pos > 0
    /\ buf[1 + PadLenOf(pos)] # old[1 + PadLenOf(pos)]

\* C9: when a valid call finds the random source failing, pad returns
\* PadError and no view; the message has been moved to offset 1 + pad_len,
\* byte 0 and the N - 1 tail bytes hold what they held before; and no other
\* failing call changes the buffer.
C9_RngFailure ==
    /\ (PadCalled /\ Valid /\ ~rng.ok) =>
          LET pad_len == PadLenOf(pos)
          IN  /\ ret = "PadError"
              /\ view_len = 0
              /\ Slice(buf, 1 + pad_len, 1 + pad_len + pos) = Message
              /\ buf[1] = old[1]
              /\ \A i \in (L(pos) - (N - 1) + 1)..L(pos) : buf[i] = old[i]
    /\ (PadCalled /\ ret # "Ok" /\ buf # old) => (Valid /\ ~rng.ok)

\* the failed call moved a message over different bytes
C9_Witness ==
    /\ PadCalled
    /\ Valid
    /\ ~rng.ok
    /\ ret = "PadError"
    /\ buf # old
    /\ old[L(pos)] = 255

\* C10: a pad call on a buffer longer than L leaves the bytes at indices
\* >= L as they were, however it ends, and a returned view is buffer[0..L).
C10_Frame ==
    (PadCalled /\ Len(old) > L(pos)) =>
        /\ Len(buf) = Len(old)
        /\ \A i \in (L(pos) + 1)..Len(old) : buf[i] = old[i]
        /\ ret = "Ok" => view_len = L(pos)

C10_Witness ==
    /\ PadOk
    /\ Len(old) > L(pos)
    /\ old[L(pos) + 1] = 255

====
